---- MODULE Spec2Model ----
(***************************************************************************)
(* Model of the route-manifest extraction pipeline of src/app.py:          *)
(* rtf_to_text, split_pages, find_meta, find_street_and_post, parse_page,  *)
(* process_rtf_file and the per-file loop of main.                         *)
(*                                                                         *)
(* Text is a sequence of code points (Python str).  The regular            *)
(* expressions of the source are written as syntax trees, one node per     *)
(* construct of the pattern, and matched by a backtracking matcher that    *)
(* tries alternatives in the order Python's re module tries them.          *)
(***************************************************************************)
EXTENDS Integers, Sequences, FiniteSets, TLC

\* ------------------------------------------------------------------------
\* Characters
\* ------------------------------------------------------------------------

\* The printable ASCII characters in code point order, 32 .. 126 (the grave
\* accent, 96, is not written as a character: no text of the model uses it).
Printable ==
    << " ", "!", "\"", "#", "$", "%", "&", "'", "(", ")", "*", "+", ",", "-", ".", "/",
       "0", "1", "2", "3", "4", "5", "6", "7", "8", "9", ":", ";", "<", "=", ">", "?",
       "@", "A", "B", "C", "D", "E", "F", "G", "H", "I", "J", "K", "L", "M", "N", "O",
       "P", "Q", "R", "S", "T", "U", "V", "W", "X", "Y", "Z", "[", "\\", "]", "^", "_",
       "(grave)", "a", "b", "c", "d", "e", "f", "g", "h", "i", "j", "k", "l", "m", "n", "o",
       "p", "q", "r", "s", "t", "u", "v", "w", "x", "y", "z", "{", "|", "}", "~" >>

\* The sequence f, with its elements computed (a tuple, equal to f).
AsTuple(f) == f \o <<>>

\* ord(c) of a printable ASCII character.
Ord(c) == 31 + (CHOOSE i \in DOMAIN Printable : Printable[i] = c)

\* A str literal, written as a tuple of its characters.
Str(t) == AsTuple([i \in 1..Len(t) |-> Ord(t[i])])

\* The characters a pattern names.
Chr(c) == {Ord(c)}
Range(a, b) == Ord(a)..Ord(b)

\* [0-9] (and \d on the Latin-1 range, where it matches nothing else).
DigitSet == Range("0", "9")
\* [a-zA-Z]
AlphaSet == Range("a", "z") \cup Range("A", "Z")
\* [0-9a-fA-F]
HexSet == DigitSet \cup Range("a", "f") \cup Range("A", "F")
\* \s, and the characters str.strip() removes: those with str.isspace().
SpaceSet ==
    (9..13) \cup (28..32) \cup {133, 160, 5760} \cup (8192..8202)
        \cup {8232, 8233, 8239, 8287, 12288}
\* \s of a str pattern on the Latin-1 range.
ReSpaceSet == (9..13) \cup (28..32) \cup {133, 160}
\* [ \t]
BlankSet == {32, 9}
\* \w on the Latin-1 range: str.isalnum() or the underscore.
WordSet ==
    DigitSet \cup AlphaSet \cup Chr("_") \cup {170, 178, 179, 181, 185, 186, 188, 189, 190}
        \cup (192..214) \cup (216..246) \cup (248..255)
\* The line boundaries of str.splitlines().
LineBreakSet == {10, 11, 12, 13, 28, 29, 30, 133, 8232, 8233}

\* str.lower() of one character, on the Latin-1 range (re.IGNORECASE folds with it).
Lower(c) ==
    IF c \in Range("A", "Z") \/ c \in (192..214) \/ c \in (216..222) THEN c + 32 ELSE c

\* ------------------------------------------------------------------------
\* Regular expressions: syntax trees
\* ------------------------------------------------------------------------

\* One character out of a set: a literal character, a class, \d, \s.
OneOf(cs) == [k |-> "set", s |-> cs]
\* "."
AnyChar == [k |-> "any"]
\* A sequence of sub-patterns.
Cat(a) == [k |-> "cat", a |-> a]
\* A literal text.
Lit(t) == [k |-> "lit", t |-> Str(t)]
\* p1|p2|...
Alt(a) == [k |-> "alt", a |-> a]
\* p{lo,hi}, greedy.
Rep(r, lo, hi) == [k |-> "rep", r |-> r, lo |-> lo, hi |-> hi, inf |-> FALSE, lazy |-> FALSE]
\* p* / p+ / p{lo,}, greedy.
RepInf(r, lo) == [k |-> "rep", r |-> r, lo |-> lo, hi |-> 0, inf |-> TRUE, lazy |-> FALSE]
\* p+? / p*?, lazy.
RepLazy(r, lo) == [k |-> "rep", r |-> r, lo |-> lo, hi |-> 0, inf |-> TRUE, lazy |-> TRUE]
\* A capturing group, (p) or (?P<name>p).
Grp(n, r) == [k |-> "grp", n |-> n, r |-> r]
\* "^" (no re.MULTILINE anywhere in the source).
Bol == [k |-> "bol"]
\* "$"
Eol == [k |-> "eol"]
\* "\b"
Wb == [k |-> "wb"]

\* \d, \s, \d+, \s+, \s*
Digit == OneOf(DigitSet)
Space == OneOf(ReSpaceSet)
Dplus == RepInf(Digit, 1)
Splus == RepInf(Space, 1)
Sstar == RepInf(Space, 0)

\* ------------------------------------------------------------------------
\* Regular expressions: matching
\* ------------------------------------------------------------------------

RECURSIVE Flatten(_)
Flatten(ss) == IF ss = <<>> THEN <<>> ELSE Head(ss) \o Flatten(Tail(ss))

IsWordAt(s, i) == i >= 1 /\ i <= Len(s) /\ s[i] \in WordSet

\* Whether the one-character pattern r ("set" or "any") takes character x.
Takes(r, x, ic) ==
    IF r.k = "any" THEN x # 10
    ELSE x \in r.s \/ (ic /\ \E y \in r.s : Lower(y) = Lower(x))

\* The least and the greatest element of a non-empty set of positions.
MinOf(xs) == CHOOSE x \in xs : \A y \in xs : x <= y
MaxOf(xs) == CHOOSE x \in xs : \A y \in xs : x >= y

\* The matches ms of the body of group n, which began at i, each with the
\* group recorded.
Capture(ms, n, i) ==
    AsTuple([k \in 1..Len(ms) |-> <<ms[k][1], (n :> <<i, ms[k][1]>>) @@ ms[k][2]>>])

\* The positions a repeated single character r can end at, from i on.
RunEnds(r, s, i, ic) ==
    {e \in i..Len(s) + 1 : /\ e - i >= r.lo
                           /\ r.inf \/ e - i <= r.hi
                           /\ \A x \in i..e - 1 : Takes(r.r, s[x], ic)}

\* The ends lo..hi of a run, longest first (shortest first when lazy).
RunSpan(lo, hi, lazy, c) ==
    AsTuple([n \in 1..(hi - lo + 1) |-> <<IF lazy THEN lo + n - 1 ELSE hi - n + 1, c>>])

RunMatches(ends, lazy, c) ==
    IF ends = {} THEN <<>> ELSE RunSpan(MinOf(ends), MaxOf(ends), lazy, c)

\* A greedy repeat tries one more repetition before it stops, a lazy one stops first.
RepOrder(lazy, more, stop) == IF lazy THEN stop \o more ELSE more \o stop

RECURSIVE Match(_, _, _, _, _)
RECURSIVE MatchCat(_, _, _, _, _, _)
RECURSIVE CatRest(_, _, _, _, _)
RECURSIVE MatchRep(_, _, _, _, _, _)
RECURSIVE RepMore(_, _, _, _, _, _)

\* The ways pattern r matches s from position i on (1-based), given the
\* groups c captured so far: a sequence of <<position after the match,
\* groups>> in the order the backtracking matcher of re tries them, so that
\* the head is the match re reports.  ic is re.IGNORECASE.
Match(r, s, i, c, ic) ==
    CASE r.k \in {"set", "any"} -> IF i <= Len(s) /\ Takes(r, s[i], ic) THEN << <<i + 1, c>> >> ELSE <<>>
      [] r.k = "lit" ->
           IF i + Len(r.t) - 1 <= Len(s)
              /\ \A n \in 1..Len(r.t) : Takes(OneOf({r.t[n]}), s[i + n - 1], ic)
           THEN << <<i + Len(r.t), c>> >> ELSE <<>>
      [] r.k = "bol" -> IF i = 1 THEN << <<i, c>> >> ELSE <<>>
      [] r.k = "eol" ->
           IF i = Len(s) + 1 \/ (i = Len(s) /\ s[i] = 10) THEN << <<i, c>> >> ELSE <<>>
      [] r.k = "wb" ->
           IF IsWordAt(s, i - 1) # IsWordAt(s, i) THEN << <<i, c>> >> ELSE <<>>
      [] r.k = "cat" -> MatchCat(r.a, 1, s, i, c, ic)
      [] r.k = "alt" -> Flatten(AsTuple([n \in 1..Len(r.a) |-> Match(r.a[n], s, i, c, ic)]))
      [] r.k = "grp" -> Capture(Match(r.r, s, i, c, ic), r.n, i)
      [] r.k = "rep" -> MatchRep(r, 0, s, i, c, ic)

\* The patterns a[j..] in sequence.
MatchCat(a, j, s, i, c, ic) ==
    IF j > Len(a) THEN << <<i, c>> >>
    ELSE CatRest(a, j, s, Match(a[j], s, i, c, ic), ic)

\* The patterns a[j+1..] after each of the matches ms of a[j].
CatRest(a, j, s, ms, ic) ==
    Flatten(AsTuple([n \in 1..Len(ms) |-> MatchCat(a, j + 1, s, ms[n][1], ms[n][2], ic)]))

\* The repeat r after cnt repetitions.
MatchRep(r, cnt, s, i, c, ic) ==
    IF r.r.k \in {"set", "any"}
    THEN RunMatches(RunEnds(r, s, i, ic), r.lazy, c)
    ELSE RepOrder(r.lazy,
                  RepMore(r, cnt, s, i,
                          IF r.inf \/ cnt < r.hi THEN Match(r.r, s, i, c, ic) ELSE <<>>, ic),
                  IF cnt >= r.lo THEN << <<i, c>> >> ELSE <<>>)

\* The repeat r continued after each of the matches ms of one more repetition.
RepMore(r, cnt, s, i, ms, ic) ==
    Flatten(AsTuple([n \in 1..Len(ms) |->
                IF ms[n][1] > i THEN MatchRep(r, cnt + 1, s, ms[n][1], ms[n][2], ic)
                ELSE <<>>]))

NoGroups == <<>>
NoMatch == [found |-> FALSE]

\* The match object for the matches ms found at position st: the first one.
First(ms, st) ==
    IF ms = <<>> THEN NoMatch
    ELSE [found |-> TRUE, st |-> st, en |-> ms[1][1], g |-> ms[1][2]]

\* pattern.match(s): the match at the start of s.
ReMatch(r, s, ic) == First(Match(r, s, 1, NoGroups, ic), 1)

\* The match at the least of the positions starts.
MatchAtFirst(r, s, starts, ic) ==
    IF starts = {} THEN NoMatch
    ELSE First(Match(r, s, MinOf(starts), NoGroups, ic), MinOf(starts))

\* The leftmost match of r in s that starts at position i or later.
SearchFrom(r, s, i, ic) ==
    MatchAtFirst(r, s, {j \in i..Len(s) + 1 : Match(r, s, j, NoGroups, ic) # <<>>}, ic)

\* re.search(r, s) / pattern.search(s)
ReSearch(r, s, ic) == SearchFrom(r, s, 1, ic)

\* m.group(n)
Group(s, m, n) == SubSeq(s, m.g[n][1], m.g[n][2] - 1)

RECURSIVE FindAll(_, _, _)
RECURSIVE FindRest(_, _, _)
\* The non-overlapping matches re.sub replaces, left to right (no pattern it
\* is used with matches the empty string).
FindAll(r, s, i) == FindRest(r, s, SearchFrom(r, s, i, FALSE))

\* The match m and the matches after it.
FindRest(r, s, m) ==
    IF ~m.found THEN <<>>
    ELSE <<m>> \o FindAll(r, s, IF m.en > m.st THEN m.en ELSE m.en + 1)

RECURSIVE Splice(_, _, _, _, _)
\* s with match ms[n] replaced by reps[n], from match n and position i on.
Splice(s, ms, reps, n, i) ==
    IF n > Len(ms) THEN SubSeq(s, i, Len(s))
    ELSE SubSeq(s, i, ms[n].st - 1) \o reps[n] \o Splice(s, ms, reps, n + 1, ms[n].en)

\* s with every one of the matches ms replaced by rep.
SpliceAll(s, ms, rep) == Splice(s, ms, AsTuple([n \in 1..Len(ms) |-> rep]), 1, 1)

\* re.sub(r, rep, s) with a constant replacement.
ReSub(r, rep, s) == SpliceAll(s, FindAll(r, s, 1), rep)

\* ------------------------------------------------------------------------
\* rtf_to_text
\* ------------------------------------------------------------------------

\* r'\\u(-?\d+)\??'
UniPat ==
    Cat(<< Lit(<<"\\", "u">>),
           Grp("1", Cat(<< Rep(OneOf(Chr("-")), 0, 1), Dplus >>)),
           Rep(OneOf(Chr("?")), 0, 1) >>)
\* r"\\'([0-9a-fA-F]{2})"
HexPat == Cat(<< Lit(<<"\\", "'">>), Grp("1", Rep(OneOf(HexSet), 2, 2)) >>)
\* r'\\par[d]?'
ParPat == Cat(<< Lit(<<"\\", "p", "a", "r">>), Rep(OneOf(Chr("d")), 0, 1) >>)
\* r'\\line'
LinePat == Lit(<<"\\", "l", "i", "n", "e">>)
\* r'\\cell'
CellPat == Lit(<<"\\", "c", "e", "l", "l">>)
\* r'\\row'
RowPat == Lit(<<"\\", "r", "o", "w">>)
\* r'\\tab'
TabPat == Lit(<<"\\", "t", "a", "b">>)
\* r'\\[a-zA-Z]+\d* ?'
CtrlPat ==
    Cat(<< Lit(<<"\\">>), RepInf(OneOf(AlphaSet), 1), RepInf(Digit, 0),
           Rep(OneOf(Chr(" ")), 0, 1) >>)
\* r'[ \t]+'
BlanksPat == RepInf(OneOf(BlankSet), 1)
\* r'\n[ \t]+'
NlBlanksPat == Cat(<< OneOf({10}), RepInf(OneOf(BlankSet), 1) >>)
\* r'[ \t]+\n'
BlanksNlPat == Cat(<< RepInf(OneOf(BlankSet), 1), OneOf({10}) >>)
\* r'\n{2,}'
NlsPat == RepInf(OneOf({10}), 2)

NL == <<10>>
SP == <<32>>

RECURSIVE StripZeros(_)
\* The digits of a number without its leading zeros.
StripZeros(ds) ==
    IF Len(ds) > 1 /\ Head(ds) = Ord("0") THEN StripZeros(Tail(ds)) ELSE ds

RECURSIVE DigitsLeq(_, _)
\* ds <= lim, for two numbers written without leading zeros.
DigitsLeq(ds, lim) ==
    IF Len(ds) # Len(lim) THEN Len(ds) < Len(lim)
    ELSE IF ds = <<>> THEN TRUE
    ELSE IF Head(ds) # Head(lim) THEN Head(ds) < Head(lim)
    ELSE DigitsLeq(Tail(ds), Tail(lim))

RECURSIVE DigitsValue(_, _)
\* int(ds), for a number small enough to be computed.
DigitsValue(ds, acc) ==
    IF ds = <<>> THEN acc ELSE DigitsValue(Tail(ds), 10 * acc + (Head(ds) - Ord("0")))

\* 0x10FFFF, the largest argument chr() accepts.
MaxCodepoint == Str(<<"1", "1", "1", "4", "1", "1", "1">>)
\* INT_MAX of the C int chr() converts its argument to: above it chr() raises
\* OverflowError, not ValueError.
CIntMax == Str(<<"2", "1", "4", "7", "4", "8", "3", "6", "4", "7">>)
\* 65536
Wrap == Str(<<"6", "5", "5", "3", "6">>)
\* 65536 - INT_MIN: the largest n for which 65536 - n is still a C int.
WrapMinusCIntMin == Str(<<"2", "1", "4", "7", "5", "4", "9", "1", "8", "4">>)

\* chr(int(ds)) for the digits ds of a number that is not negative, line 164,
\* with the handler of line 166.
ChrOf(ds) ==
    IF DigitsLeq(ds, MaxCodepoint) THEN [exc |-> "", text |-> <<DigitsValue(ds, 0)>>]
    ELSE IF DigitsLeq(ds, CIntMax) THEN [exc |-> "", text |-> SP]
    ELSE [exc |-> "OverflowError", text |-> <<>>]

\* chr(65536 - int(ds)) for the digits ds of a positive number, lines 162-166.
ChrOfWrapped(ds) ==
    IF DigitsLeq(ds, Wrap)
    THEN [exc |-> "", text |-> <<DigitsValue(Wrap, 0) - DigitsValue(ds, 0)>>]
    ELSE IF DigitsLeq(ds, WrapMinusCIntMin) THEN [exc |-> "", text |-> SP]
    ELSE [exc |-> "OverflowError", text |-> <<>>]

\* uni_sub for a number with sign neg and digits ds.
UniOf(neg, ds) == IF ~neg \/ ds = Str(<<"0">>) THEN ChrOf(ds) ELSE ChrOfWrapped(ds)

\* uni_sub(m) for m.group(1) = g: the replacement text, or the exception
\* that leaves the function.  int() and the wraparound are lines 161-163,
\* chr() and its handler lines 164-167.
uni_sub(g) ==
    UniOf(g[1] = Ord("-"), StripZeros(IF g[1] = Ord("-") THEN Tail(g) ELSE g))

HexDigit(c) ==
    IF c \in DigitSet THEN c - Ord("0")
    ELSE IF c \in Range("a", "f") THEN c - Ord("a") + 10
    ELSE c - Ord("A") + 10

\* hex_sub(m) for m.group(1) = g: the one byte, decoded as latin-1.
hex_sub(g) == <<16 * HexDigit(g[1]) + HexDigit(g[2])>>

\* The text with the matches ms replaced by the results subs of uni_sub,
\* unless one of them raised.
UniSplice(rtf, ms, subs) ==
    IF \E n \in 1..Len(ms) : subs[n].exc # ""
    THEN [exc |-> "OverflowError", text |-> <<>>]
    ELSE [exc |-> "",
          text |-> Splice(rtf, ms, AsTuple([n \in 1..Len(ms) |-> subs[n].text]), 1, 1)]

\* uni_sub of each of the matches ms.
UniSubs(rtf, ms) ==
    UniSplice(rtf, ms, AsTuple([n \in 1..Len(ms) |-> uni_sub(Group(rtf, ms[n], "1"))]))

\* Line 169: re.sub(r'\\u(-?\d+)\??', uni_sub, rtf)
UniStep(rtf) == UniSubs(rtf, FindAll(UniPat, rtf, 1))

\* hex_sub of each of the matches ms.
HexSubs(text, ms) ==
    Splice(text, ms, AsTuple([n \in 1..Len(ms) |-> hex_sub(Group(text, ms[n], "1"))]), 1, 1)

\* Line 176: re.sub(r"\\'([0-9a-fA-F]{2})", hex_sub, text)
HexStep(text) == HexSubs(text, FindAll(HexPat, text, 1))

\* Lines 178-183: the control words.
CtrlStep(text) ==
    ReSub(CtrlPat, SP,
      ReSub(TabPat, SP \o SP \o SP \o SP,
        ReSub(RowPat, NL,
          ReSub(CellPat, NL,
            ReSub(LinePat, NL,
              ReSub(ParPat, NL, text))))))

\* Line 184: text.replace('{', ' ').replace('}', ' ')
BraceStep(text) ==
    AsTuple([i \in 1..Len(text) |-> IF text[i] \in Chr("{") \cup Chr("}") THEN 32 ELSE text[i]])

\* Lines 185-188: whitespace.
SpaceStep(text) ==
    ReSub(NlsPat, NL,
      ReSub(BlanksNlPat, NL,
        ReSub(NlBlanksPat, NL,
          ReSub(BlanksPat, SP, text))))

\* Lines 176-189 on the result u of line 169.
AfterUni(u) ==
    IF u.exc # "" THEN u
    ELSE [exc |-> "", text |-> SpaceStep(BraceStep(CtrlStep(HexStep(u.text))))]

\* rtf_to_text(rtf): [exc |-> the exception raised, "" for none, text |-> the result]
rtf_to_text(rtf) == AfterUni(UniStep(rtf))

\* ------------------------------------------------------------------------
\* process_rtf_file, lines 319-321: decoding
\* ------------------------------------------------------------------------

\* The position after the line boundary at j ("\r\n" is one boundary).
AfterBreak(text, j) ==
    IF text[j] = 13 /\ j < Len(text) /\ text[j + 1] = 10 THEN j + 2 ELSE j + 1

RECURSIVE splitlines(_, _)
RECURSIVE SplitAt(_, _, _)
\* str.splitlines(): text from position i on, cut at every line boundary;
\* no empty last line after a final boundary.
splitlines(text, i) ==
    IF i > Len(text) THEN <<>>
    ELSE SplitAt(text, i, {j \in i..Len(text) : text[j] \in LineBreakSet})

\* The lines of text from i on, given the positions brk of its boundaries.
SplitAt(text, i, brk) ==
    IF brk = {} THEN <<SubSeq(text, i, Len(text))>>
    ELSE <<SubSeq(text, i, MinOf(brk) - 1)>> \o splitlines(text, AfterBreak(text, MinOf(brk)))

\* s between the first and the last of the positions keep.
Between(s, keep) == IF keep = {} THEN <<>> ELSE SubSeq(s, MinOf(keep), MaxOf(keep))

\* str.strip()
strip(s) == Between(s, {i \in 1..Len(s) : s[i] \notin SpaceSet})

\* [x for x in xs if x]
SelectNonEmpty(xs) == SelectSeq(xs, LAMBDA x : x # <<>>)

\* file_content.decode("latin-1", errors="ignore"): byte b is character b.
decode_latin1(file_content) == file_content

\* [ln.strip() for ln in ls], line 321
StripAll(ls) == AsTuple([n \in 1..Len(ls) |-> strip(ls[n])])

\* Lines 320-321 on the result r of rtf_to_text.
LinesOf(r) ==
    IF r.exc # "" THEN [exc |-> r.exc, lines |-> <<>>]
    ELSE [exc |-> "", lines |-> SelectNonEmpty(StripAll(splitlines(r.text, 1)))]

\* Lines 319-321: [exc, lines]
decode_lines(file_content) == LinesOf(rtf_to_text(decode_latin1(file_content)))

\* ------------------------------------------------------------------------
\* Patterns of the page functions
\* ------------------------------------------------------------------------

\* A literal text with characters outside ASCII, given by its code points.
LitCp(t) == [k |-> "lit", t |-> t]
\* "LÆSSEPORT" (Æ is 198)
LAESSEPORT == Str(<<"L">>) \o <<198>> \o Str(<<"S", "S", "E", "P", "O", "R", "T">>)
\* "ÅBNE - LUKKE" (Å is 197)
AABNE_LUKKE == <<197>> \o Str(<<"B", "N", "E", " ", "-", " ", "L", "U", "K", "K", "E">>)

\* r"Side\s+\d+\s+af\s+\d+"
SidePat == Cat(<< Lit(<<"S", "i", "d", "e">>), Splus, Dplus, Splus, Lit(<<"a", "f">>), Splus, Dplus >>)

\* HEADER_FOOTER_PAT (compiled with re.IGNORECASE)
HEADER_FOOTER_PAT ==
    Alt(<< Lit(<<"H", "a", "s", "s", "e", "l", "a", "g", "e", "r", " ", "F", "V", "T">>),
           Lit(<<"T", "U", "R", " ", "S", "T", "A", "R", "T">>),
           Lit(<<"T", "R", "I", "P">>),
           Lit(<<"P", "A", "U", "S", "E">>),
           LitCp(LAESSEPORT),
           Lit(<<"H", "O", "S", "T", "R", "U", "T", "E">>),
           Lit(<<"V", "O", "G", "N", "N", "U", "M", "M", "E", "R">>),
           LitCp(AABNE_LUKKE),
           Lit(<<"S", "T", "A", "R", "T", "T", "I", "D">>),
           Lit(<<"H", "J", "E", "M", "K", "O", "M", "S", "T", "T", "I", "D">>),
           Lit(<<"S", "L", "U", "T", "T", "I", "D">>),
           Lit(<<"R", "O", "U", "T", "E", "D", "A", "T", "E">>),
           Lit(<<"U", "d", "s", "k", "r", "e", "v", "e", "t", ":">>),
           SidePat >>)

\* [0-2]?\d:\d{2}
ClockPat == Cat(<< Rep(OneOf(Range("0", "2")), 0, 1), Digit, Lit(<<":">>), Rep(Digit, 2, 2) >>)
\* \d{1,2}:\d{2}
TimePat == Cat(<< Rep(Digit, 1, 2), Lit(<<":">>), Rep(Digit, 2, 2) >>)

\* r'HOSTRUTE:\s*(\d+)'
host_re == Cat(<< Lit(<<"H", "O", "S", "T", "R", "U", "T", "E", ":">>), Sstar, Grp("1", Dplus) >>)
\* r'LÆSSEPORT:\s*(\d+)'
port_re == Cat(<< LitCp(LAESSEPORT), Lit(<<":">>), Sstar, Grp("1", Dplus) >>)
\* r'STARTTID:\s*([0-2]?\d:\d{2})'
start_re == Cat(<< Lit(<<"S", "T", "A", "R", "T", "T", "I", "D", ":">>), Sstar, Grp("1", ClockPat) >>)
\* r'SLUTTID:\s*([0-2]?\d:\d{2})'
slut_re == Cat(<< Lit(<<"S", "L", "U", "T", "T", "I", "D", ":">>), Sstar, Grp("1", ClockPat) >>)
\* r'AFREGNINGSTID:\s*(\d+)'
afr_re ==
    Cat(<< Lit(<<"A", "F", "R", "E", "G", "N", "I", "N", "G", "S", "T", "I", "D", ":">>),
           Sstar, Grp("1", Dplus) >>)

\* r'\b\d{4}\b'
Bare4Pat == Cat(<< Wb, Rep(Digit, 4, 4), Wb >>)
\* r'(\d{4})\s+(.+)$'
PostPat == Cat(<< Grp("1", Rep(Digit, 4, 4)), Splus, Grp("2", RepInf(AnyChar, 1)), Eol >>)
\* r'(.+?)\s+(\d{4})\s+(.+)$'
StreetPostPat ==
    Cat(<< Grp("1", RepLazy(AnyChar, 1)), Splus, Grp("2", Rep(Digit, 4, 4)), Splus,
           Grp("3", RepInf(AnyChar, 1)), Eol >>)

\* stop_line_re, lines 270-275
stop_line_re ==
    Cat(<< Bol, Grp("id", Rep(Digit, 5, 5)), Splus, Grp("name", RepLazy(AnyChar, 1)), Splus,
           TimePat, Sstar, Lit(<<"-">>), Sstar, TimePat,
           Rep(Cat(<< Splus, Dplus >>), 1, 8), Splus,
           Grp("ank", TimePat), Splus, Grp("afg", TimePat), Wb >>)

\* r'\s+[A]\s*\d*$'
SuffixPat == Cat(<< Splus, OneOf(Chr("A")), Sstar, RepInf(Digit, 0), Eol >>)

\* 'Hasselager', the depot marker of line 290
Hasselager == Str(<<"H", "a", "s", "s", "e", "l", "a", "g", "e", "r">>)

\* Python's None, where a text is expected (no text holds a negative code point).
None == <<-1>>

\* sub in x, for two texts
Contains(x, sub) == \E i \in 1..(Len(x) - Len(sub) + 1) : SubSeq(x, i, i + Len(sub) - 1) = sub

\* ------------------------------------------------------------------------
\* The decoded lines the documents of the model are made of
\* ------------------------------------------------------------------------

\* "HOSTRUTE: 101"
LnRoute101 == Str(<<"H", "O", "S", "T", "R", "U", "T", "E", ":", " ", "1", "0", "1">>)
\* "LAESSEPORT: 7 STARTTID: 6:30 SLUTTID: 14:05 AFREGNINGSTID: 90"
LnMetaA == Str(<<"L">>) \o <<198>> \o Str(<<"S", "S", "E", "P", "O", "R", "T", ":", " ",
        "7", " ", "S", "T", "A", "R", "T", "T", "I", "D", ":", " ", "6", ":", "3", "0",
        " ", "S", "L", "U", "T", "T", "I", "D", ":", " ", "1", "4", ":", "0", "5", " ",
        "A", "F", "R", "E", "G", "N", "I", "N", "G", "S", "T", "I", "D", ":", " ", "9",
        "0">>)
\* "HOSTRUTE: 202 LAESSEPORT: 12 STARTTID: 7:15 SLUTTID: 15:00 AFREGNINGSTID: 125"
LnHeadB == Str(<<"H", "O", "S", "T", "R", "U", "T", "E", ":", " ", "2", "0", "2", " ", "L">>)
        \o <<198>> \o Str(<<"S", "S", "E", "P", "O", "R", "T", ":", " ",
        "1", "2", " ", "S", "T", "A", "R", "T", "T", "I", "D", ":", " ", "7", ":", "1",
        "5", " ", "S", "L", "U", "T", "T", "I", "D", ":", " ", "1", "5", ":", "0", "0",
        " ", "A", "F", "R", "E", "G", "N", "I", "N", "G", "S", "T", "I", "D", ":", " ",
        "1", "2", "5">>)
\* "10001 Netto 7:00-8:00 1 7:30 7:45"
LnStopNetto == Str(<<"1", "0", "0", "0", "1", " ", "N", "e", "t", "t", "o", " ", "7", ":",
        "0", "0", "-", "8", ":", "0", "0", " ", "1", " ", "7", ":", "3", "0", " ", "7",
        ":", "4", "5">>)
\* "10002 Rema A 8:00 - 9:00 1 2 8:30 8:45"
LnStopRema == Str(<<"1", "0", "0", "0", "2", " ", "R", "e", "m", "a", " ", "A", " ", "8",
        ":", "0", "0", " ", "-", " ", "9", ":", "0", "0", " ", "1", " ", "2", " ", "8",
        ":", "3", "0", " ", "8", ":", "4", "5">>)
\* "10003 Hasselager 5:00-6:00 1 5:30 5:45"
LnStopDepot == Str(<<"1", "0", "0", "0", "3", " ", "H", "a", "s", "s", "e", "l", "a", "g",
        "e", "r", " ", "5", ":", "0", "0", "-", "6", ":", "0", "0", " ", "1", " ", "5",
        ":", "3", "0", " ", "5", ":", "4", "5">>)
\* "10004 HASSELAGER 5:00-6:00 1 5:30 5:45"
LnStopDepotUpper == Str(<<"1", "0", "0", "0", "4", " ", "H", "A", "S", "S", "E", "L", "A",
        "G", "E", "R", " ", "5", ":", "0", "0", "-", "6", ":", "0", "0", " ", "1", " ",
        "5", ":", "3", "0", " ", "5", ":", "4", "5">>)
\* "Hovedgaden 10"
LnStreet == Str(<<"H", "o", "v", "e", "d", "g", "a", "d", "e", "n", " ", "1", "0">>)
\* "8000 Aarhus C"
LnPost == Str(<<"8", "0", "0", "0", " ", "A", "a", "r", "h", "u", "s", " ", "C">>)
\* "Nygade 1 8200 Aarhus N"
LnStreetPost == Str(<<"N", "y", "g", "a", "d", "e", " ", "1", " ", "8", "2", "0", "0", " ",
        "A", "a", "r", "h", "u", "s", " ", "N">>)
\* "Hasselagervej 5"
LnDepotStreet == Str(<<"H", "a", "s", "s", "e", "l", "a", "g", "e", "r", "v", "e", "j",
        " ", "5">>)
\* "8361 Hasselager"
LnDepotPost == Str(<<"8", "3", "6", "1", " ", "H", "a", "s", "s", "e", "l", "a", "g", "e",
        "r">>)
\* "8361 HASSELAGER"
LnDepotPostUpper == Str(<<"8", "3", "6", "1", " ", "H", "A", "S", "S", "E", "L", "A", "G",
        "E", "R">>)
\* "TUR START"
LnTurStart == Str(<<"T", "U", "R", " ", "S", "T", "A", "R", "T">>)
\* "Side 1 af 2"
LnFooter == Str(<<"S", "i", "d", "e", " ", "1", " ", "a", "f", " ", "2">>)
\* "side 1 af 2"
LnFooterLower == Str(<<"s", "i", "d", "e", " ", "1", " ", "a", "f", " ", "2">>)

\* Store names as a manifest prints them: a name, and after it nothing, a
\* letter, a letter with digits, a letter and digits apart, two letters.
NameBases == << Str(<<"R", "e", "m", "a">>), Str(<<"F", "a", "k", "t", "a">>) >>
NameSuffixes ==
    << <<>>, Str(<<" ", "A">>), Str(<<" ", "B">>), Str(<<" ", "a">>),
       Str(<<" ", "A", "1", "2">>), Str(<<" ", "A", " ", "1", "2">>),
       Str(<<" ", "B", "7">>), Str(<<" ", "A", "B">>) >>
Names ==
    AsTuple([n \in 1..(Len(NameBases) * Len(NameSuffixes)) |->
                NameBases[((n - 1) \div Len(NameSuffixes)) + 1]
                    \o NameSuffixes[((n - 1) % Len(NameSuffixes)) + 1]])

\* "10005 <name> 8:00-9:00 1 8:30 8:45", the stop line of a store name.
StopLineOf(name) ==
    Str(<<"1", "0", "0", "0", "5", " ">>) \o name
        \o Str(<<" ", "8", ":", "0", "0", "-", "9", ":", "0", "0", " ", "1", " ", "8", ":",
                 "3", "0", " ", "8", ":", "4", "5">>)

\* The stop lines of Names.
NameLines == AsTuple([n \in 1..Len(Names) |-> StopLineOf(Names[n])])

\* Every line above.
AllLines ==
    << LnRoute101, LnMetaA, LnHeadB, LnStopNetto, LnStopRema, LnStopDepot,
       LnStopDepotUpper, LnStreet, LnPost, LnStreetPost, LnDepotStreet, LnDepotPost,
       LnDepotPostUpper, LnTurStart, LnFooter, LnFooterLower >> \o NameLines

\* The match m of a pattern in ln, as what the code reads of it: whether it
\* matched and its groups.
Cap1(ln, m) ==
    IF m.found THEN [found |-> TRUE, g1 |-> Group(ln, m, "1")] ELSE [found |-> FALSE]
Cap2(ln, m) ==
    IF m.found THEN [found |-> TRUE, g1 |-> Group(ln, m, "1"), g2 |-> Group(ln, m, "2")]
    ELSE [found |-> FALSE]
Cap3(ln, m) ==
    IF m.found
    THEN [found |-> TRUE, g1 |-> Group(ln, m, "1"), g2 |-> Group(ln, m, "2"),
          g3 |-> Group(ln, m, "3")]
    ELSE [found |-> FALSE]
CapStop(ln, m) ==
    IF m.found THEN [found |-> TRUE, name |-> Group(ln, m, "name"), ank |-> Group(ln, m, "ank")]
    ELSE [found |-> FALSE]

\* What the patterns of the page functions find in one line: each search is
\* a function of the line alone.
Facts(ln) ==
    [side  |-> ReSearch(SidePat, ln, FALSE).found,
     host  |-> Cap1(ln, ReSearch(host_re, ln, FALSE)),
     port  |-> Cap1(ln, ReSearch(port_re, ln, FALSE)),
     start |-> Cap1(ln, ReSearch(start_re, ln, FALSE)),
     slut  |-> Cap1(ln, ReSearch(slut_re, ln, FALSE)),
     afr   |-> Cap1(ln, ReSearch(afr_re, ln, FALSE)),
     noise |-> ReSearch(HEADER_FOOTER_PAT, ln, TRUE).found,
     bare4 |-> ReSearch(Bare4Pat, ln, FALSE).found,
     pm    |-> Cap2(ln, ReSearch(PostPat, ln, FALSE)),
     pm2   |-> Cap3(ln, ReSearch(StreetPostPat, ln, FALSE)),
     sm    |-> CapStop(ln, ReMatch(stop_line_re, ln, FALSE))]

\* Facts of every line of AllLines, computed once.
LineFacts == AsTuple([n \in 1..Len(AllLines) |-> Facts(AllLines[n])])

\* Facts(ln) for a line of AllLines, looked up: every line of the documents
\* is one of them.
FactsOf(ln) == LineFacts[CHOOSE n \in 1..Len(AllLines) : AllLines[n] = ln]

\* FactsOf of each of the lines ls.
FactsAll(ls) == AsTuple([n \in 1..Len(ls) |-> FactsOf(ls[n])])

\* ------------------------------------------------------------------------
\* split_pages, find_meta, find_street_and_post, parse_page
\* ------------------------------------------------------------------------

\* Line 198: re.search(r"Side\s+\d+\s+af\s+\d+", ln)
IsFooter(ln) == FactsOf(ln).side

RECURSIVE split_loop(_, _, _, _)
\* The loop of split_pages from line i on, lines 196-203.
split_loop(lines, i, pages, current) ==
    IF i > Len(lines)
    THEN IF current # <<>> THEN Append(pages, current) ELSE pages
    ELSE IF IsFooter(lines[i])
         THEN split_loop(lines, i + 1, Append(pages, Append(current, lines[i])), <<>>)
         ELSE split_loop(lines, i + 1, pages, Append(current, lines[i]))

\* split_pages(lines), lines 192-203
split_pages(lines) == split_loop(lines, 1, <<>>, <<>>)

\* MetaStep keeping the first value found.
MetaStepFirst(m, sofar) == IF sofar # None THEN sofar ELSE IF m.found THEN m.g1 ELSE sofar

\* One field of find_meta: m.group(1) if m else <the value so far>
MetaStep(m, sofar) == IF m.found THEN m.g1 ELSE sofar

\* Lines 216-225 for one line with facts f: the five fields after it.
MetaLine(f, acc) ==
    [rutenummer    |-> MetaStep(f.host, acc.rutenummer),
     portnummer    |-> MetaStep(f.port, acc.portnummer),
     starttid      |-> MetaStep(f.start, acc.starttid),
     sluttid       |-> MetaStep(f.slut, acc.sluttid),
     afregningstid |-> MetaStep(f.afr, acc.afregningstid)]

RECURSIVE meta_loop(_, _, _)
\* The loop of find_meta from line i on, lines 215-225.
meta_loop(page_lines, i, acc) ==
    IF i > Len(page_lines) THEN acc
    ELSE meta_loop(page_lines, i + 1, MetaLine(FactsOf(page_lines[i]), acc))

\* find_meta(page_lines), lines 206-226
find_meta(page_lines) ==
    meta_loop(page_lines, 1,
        [rutenummer |-> None, portnummer |-> None, starttid |-> None, sluttid |-> None,
         afregningstid |-> None])

\* Lookahead reaching one line further.
LookaheadWide(page_lines, start_idx, lookahead_depth) ==
    AsTuple([k \in 1..Cardinality({k \in 1..(lookahead_depth + 1) : start_idx + k < Len(page_lines)})
               |-> page_lines[start_idx + k + 1]])

\* Lines 235-239: the lines after start_idx (0-based) that exist, at most
\* lookahead_depth of them.  page_lines[start_idx + k] is element start_idx + k + 1.
Lookahead(page_lines, start_idx, lookahead_depth) ==
    AsTuple([k \in 1..Cardinality({k \in 1..lookahead_depth : start_idx + k < Len(page_lines)})
               |-> page_lines[start_idx + k + 1]])

\* Line 242: not s or HEADER_FOOTER_PAT.search(s), for a line s with facts f
IsNoise(s, f) == s = <<>> \/ f.noise
\* Line 244: re.search(r'\b\d{4}\b', s)
HasBare4(f) == f.bare4

\* Lines 245-246: the first of the lines ok, stripped.
StreetAt(lookahead, ok) == IF ok = {} THEN None ELSE strip(lookahead[MinOf(ok)])

\* Lines 241-247: the first pass over the lines lookahead with facts fs.
FirstStreet(lookahead, fs) ==
    StreetAt(lookahead,
             {n \in 1..Len(lookahead) : ~IsNoise(lookahead[n], fs[n]) /\ ~HasBare4(fs[n])})

\* Lines 252-253
PostOf(pm) == [postnr |-> pm.g1, by |-> strip(pm.g2)]

\* PostAt taking the last of the lines ok.
PostAtLast(fs, ok) == IF ok = {} THEN [postnr |-> None, by |-> None] ELSE PostOf(fs[MaxOf(ok)].pm)

\* Lines 249-254, given the lines ok the pattern matches.
PostAt(fs, ok) == IF ok = {} THEN [postnr |-> None, by |-> None] ELSE PostOf(fs[MinOf(ok)].pm)

\* Lines 249-254: [postnr, by]
FirstPost(fs) == PostAt(fs, {n \in 1..Len(fs) : fs[n].pm.found})

\* Lines 260-262
StreetPostOf(pm2) == [street |-> strip(pm2.g1), postnr |-> pm2.g2, by |-> strip(pm2.g3)]

FallbackAt(fs, ok, sofar) == IF ok = {} THEN sofar ELSE StreetPostOf(fs[MinOf(ok)].pm2)

\* Lines 256-263: the fallback, given the result so far.
Fallback(fs, sofar) ==
    FallbackAt(fs, {n \in 1..Len(fs) : fs[n].pm2.found /\ ~fs[n].noise}, sofar)

\* Lines 256-265, given the results of the first pass and of the search for
\* the postal code.
Resolve(fs, street, post) ==
    IF street = None
    THEN Fallback(fs, [street |-> street, postnr |-> post.postnr, by |-> post.by])
    ELSE [street |-> street, postnr |-> post.postnr, by |-> post.by]

\* Lines 241-265 over the lines lookahead with facts fs.
ResolveIn(lookahead, fs) == Resolve(fs, FirstStreet(lookahead, fs), FirstPost(fs))

\* Lines 241-265 over the lines lookahead.
ResolveLines(lookahead) == ResolveIn(lookahead, FactsAll(lookahead))

\* find_street_and_post(page_lines, start_idx, lookahead_depth), lines 229-265
find_street_and_post(page_lines, start_idx, lookahead_depth) ==
    ResolveLines(Lookahead(page_lines, start_idx, lookahead_depth))

\* lookahead_depth=12 of the call at line 288
LookaheadDepth == 12

\* Lines 295-300: round(float(afregningstid) / 60.0, 2), in hundredths of an
\* hour (5m/3 is never half way between two integers, so rounding to the
\* nearest is rounding half up); None for None and for the empty text.
AfrHours(afregningstid) ==
    IF afregningstid = None \/ afregningstid = <<>> THEN None
    ELSE <<(10 * DigitsValue(afregningstid, 0) + 3) \div 6>>

\* Line 290: any(x and 'Hasselager' in x for x in [name_raw, street, by])
IsDepot(name_raw, street, by) ==
    \E x \in {name_raw, street, by} : x # None /\ x # <<>> /\ Contains(x, Hasselager)

\* Line 293: re.sub(r'\s+[A]\s*\d*$', '', name_raw).strip()
Butik(name_raw) == strip(ReSub(SuffixPat, <<>>, name_raw))

\* Lines 290-313: the rows with the row of a stop appended, unless it is the depot.
AddRow(rows, meta, name_raw, ank, addr) ==
    IF IsDepot(name_raw, addr.street, addr.by) THEN rows
    ELSE Append(rows,
           [Butiksnavn    |-> Butik(name_raw),
            Adresse       |-> addr.street,
            Postnr        |-> addr.postnr,
            By            |-> addr.by,
            Ankomst       |-> ank,
            Rutenummer    |-> meta.rutenummer,
            Portnummer    |-> meta.portnummer,
            Starttid      |-> meta.starttid,
            Sluttid       |-> meta.sluttid,
            Afregningstid |-> AfrHours(meta.afregningstid)])

\* Lines 283-313 for line i, given the match sm of stop_line_re on it.
StopRow(page_lines, i, meta, rows, sm) ==
    IF ~sm.found THEN rows
    ELSE AddRow(rows, meta, strip(sm.name), sm.ank,
                find_street_and_post(page_lines, i, LookaheadDepth))

\* The body of the loop of parse_page for line i (0-based) of the page, lines
\* 281-313: the rows with the row of this line appended, or the rows unchanged.
ParseLine(page_lines, i, meta, rows) ==
    StopRow(page_lines, i, meta, rows, FactsOf(page_lines[i + 1]).sm)

RECURSIVE parse_loop(_, _, _, _)
\* The loop of parse_page from line i (0-based) on.
parse_loop(page_lines, i, meta, rows) ==
    IF i >= Len(page_lines) THEN rows
    ELSE parse_loop(page_lines, i + 1, meta, ParseLine(page_lines, i, meta, rows))

\* parse_page(page_lines), lines 268-314
parse_page(page_lines) == parse_loop(page_lines, 0, find_meta(page_lines), <<>>)

\* ------------------------------------------------------------------------
\* State
\* ------------------------------------------------------------------------

VARIABLES
    pc,            \* where the run is
    raw,           \* process_rtf_file: file_content, the bytes of the file
    dec,           \* process_rtf_file: the outcome of lines 319-321, [exc, lines]
    lines,         \* process_rtf_file: the decoded lines (line 321)
    pages,         \* process_rtf_file: split_pages(lines) (line 322)
    pidx,          \* process_rtf_file: the page the loop of line 325 is at (1-based)
    all_rows,      \* process_rtf_file: the rows so far (lines 324-326)
    row_count,     \* process_rtf_file: the count returned (line 329), -1 before
    sidx,          \* parse_page: the line (0-based) of the last call at line 288, -1 before
    adr,           \* parse_page: what that call returned, [street, postnr, by]
    files,         \* main: uploaded_files, each a name and a content
    fidx,          \* main: the file the loop of line 526 is at (1-based)
    all_results,   \* main: all_results (line 523)
    total_rows,    \* main: total_rows (line 524)
    errors         \* main: the files st.error reported (line 546)

decVars   == <<raw, dec>>
docVars   == <<lines, pages, pidx, all_rows, row_count>>
addrVars  == <<sidx, adr>>
batchVars == <<files, fidx, all_results, total_rows, errors>>
vars == <<pc, raw, dec, lines, pages, pidx, all_rows, row_count, sidx, adr,
          files, fidx, all_results, total_rows, errors>>

\* The variables of the parts of the program a specification leaves out.
NoDec   == raw = <<>> /\ dec = [exc |-> "", lines |-> <<>>]
NoDoc   == lines = <<>> /\ pages = <<>> /\ pidx = 0 /\ all_rows = <<>> /\ row_count = -1
NoAddr  == sidx = -1 /\ adr = [street |-> None, postnr |-> None, by |-> None]
NoBatch == files = <<>> /\ fidx = 0 /\ all_results = <<>> /\ total_rows = 0 /\ errors = <<>>

\* The sequences qs and each of them with one element of xs appended.
Extend(qs, xs) == qs \cup {Append(q, x) : q \in qs, x \in xs}

\* The sequences of at most n elements of xs.
RECURSIVE SeqsUpTo(_, _)
SeqsUpTo(xs, n) == IF n = 0 THEN {<<>>} ELSE Extend(SeqsUpTo(xs, n - 1), xs)

\* ------------------------------------------------------------------------
\* process_rtf_file, lines 319-321: from the bytes of the file to its lines
\* ------------------------------------------------------------------------

\* "\u92" (a backslash), "\u123" (an opening brace), "\'5c" (a backslash),
\* "\'7b" (an opening brace), "\u65" (the letter A)
EscU92 == Str(<<"\\", "u", "9", "2">>)
EscU123 == Str(<<"\\", "u", "1", "2", "3">>)
EscHex5c == Str(<<"\\", "'", "5", "c">>)
EscHex7b == Str(<<"\\", "'", "7", "b">>)
EscU65 == Str(<<"\\", "u", "6", "5">>)
\* the escape of 2147483648, a number above every C int
EscUBig == Str(<<"\\", "u", "2", "1", "4", "7", "4", "8", "3", "6", "4", "8">>)
\* "\u-70000": a number that stays negative when 65536 is added
EscUNeg == Str(<<"\\", "u", "-", "7", "0", "0", "0", "0">>)
\* the escape of 1114112, the first number above the largest code point
EscUOver == Str(<<"\\", "u", "1", "1", "1", "4", "1", "1", "2">>)

Escapes == {EscU92, EscU123, EscHex5c, EscHex7b, EscU65, EscUBig, EscUNeg, EscUOver}

\* The text before the escapes and the text after them.
DecPres == { <<>>, Str(<<"A">>) }
DecPosts == { <<>>, Str(<<"'", "4", "1">>), Str(<<"p", "a", "r">>), Str(<<" ", "B">>) }

\* A file holds at most MaxEscapes escapes.
MaxEscapes == 2

RawDocs ==
    {pre \o Flatten(es) \o post :
        pre \in DecPres, es \in SeqsUpTo(Escapes, MaxEscapes), post \in DecPosts}

InitDecode ==
    /\ pc = "decode"
    /\ raw \in RawDocs
    /\ dec = [exc |-> "", lines |-> <<>>]
    /\ NoDoc /\ NoAddr /\ NoBatch

\* Lines 319-321, when no exception leaves them.
Decode ==
    /\ pc = "decode"
    /\ decode_lines(raw).exc = ""
    /\ dec' = decode_lines(raw)
    /\ pc' = "decoded"
    /\ UNCHANGED <<raw, docVars, addrVars, batchVars>>

\* Lines 319-321, when an exception leaves rtf_to_text and process_rtf_file.
DecodeRaises ==
    /\ pc = "decode"
    /\ decode_lines(raw).exc # ""
    /\ dec' = decode_lines(raw)
    /\ pc' = "raised"
    /\ UNCHANGED <<raw, docVars, addrVars, batchVars>>

NextDecode == Decode \/ DecodeRaises

SpecDecode == InitDecode /\ [][NextDecode]_vars

\* ------------------------------------------------------------------------
\* process_rtf_file on decoded lines
\* ------------------------------------------------------------------------

\* The documents are made of at most MaxBlocks blocks of lines.
MaxBlocks == 3

\* The blocks: header lines, footers, stops with what follows them, whole pages.
Blocks ==
    { <<LnRoute101>>, <<LnMetaA>>, <<LnHeadB>>, <<LnFooter>>, <<LnFooterLower>>,
      <<LnStopNetto, LnStreet, LnPost>>,
      <<LnStopRema>>,
      <<LnStopDepot>>,
      <<LnStopNetto, LnStreet, LnDepotPost>>,
      <<LnStopRema, LnDepotStreet, LnPost>>,
      <<LnStopNetto, LnStreet, LnDepotPostUpper>>,
      <<LnRoute101, LnStopNetto, LnFooter>>,
      <<LnStopRema, LnFooter>> }

\* The decoded line sequences of the documents.
Docs == {Flatten(bs) : bs \in SeqsUpTo(Blocks, MaxBlocks)}

InitDoc ==
    /\ pc = "split"
    /\ lines \in Docs
    /\ pages = <<>>
    /\ pidx = 0
    /\ all_rows = <<>>
    /\ row_count = -1
    /\ NoDec /\ NoAddr /\ NoBatch

\* Line 322: pages = split_pages(lines)
SplitPages ==
    /\ pc = "split"
    /\ pages' = split_pages(lines)
    /\ pidx' = 1
    /\ pc' = "pages"
    /\ UNCHANGED <<lines, all_rows, row_count, decVars, addrVars, batchVars>>

\* ParsePage with the rows of the page put before the rows so far.
ParsePagePrepend ==
    /\ pc = "pages"
    /\ pidx <= Len(pages)
    /\ all_rows' = parse_page(pages[pidx]) \o all_rows
    /\ pidx' = pidx + 1
    /\ UNCHANGED <<pc, lines, pages, row_count, decVars, addrVars, batchVars>>

\* Lines 325-326, one page: all_rows.extend(parse_page(page))
ParsePage ==
    /\ pc = "pages"
    /\ pidx <= Len(pages)
    /\ all_rows' = all_rows \o parse_page(pages[pidx])
    /\ pidx' = pidx + 1
    /\ UNCHANGED <<pc, lines, pages, row_count, decVars, addrVars, batchVars>>

\* Lines 328-329: return df, len(all_rows)
Return ==
    /\ pc = "pages"
    /\ pidx > Len(pages)
    /\ row_count' = Len(all_rows)
    /\ pc' = "done"
    /\ UNCHANGED <<lines, pages, pidx, all_rows, decVars, addrVars, batchVars>>

NextDoc == SplitPages \/ ParsePage \/ Return

SpecDoc == InitDoc /\ [][NextDoc]_vars

\* ------------------------------------------------------------------------
\* process_rtf_file on documents of stops with store names of every shape
\* ------------------------------------------------------------------------

\* A document holds at most MaxNames stop lines.
MaxNames == 2

\* The decoded line sequences of these documents: stop lines only.
NameDocs == SeqsUpTo({NameLines[n] : n \in 1..Len(NameLines)}, MaxNames)

InitName ==
    /\ pc = "split"
    /\ lines \in NameDocs
    /\ pages = <<>>
    /\ pidx = 0
    /\ all_rows = <<>>
    /\ row_count = -1
    /\ NoDec /\ NoAddr /\ NoBatch

SpecName == InitName /\ [][NextDoc]_vars

\* ------------------------------------------------------------------------
\* parse_page line by line
\* ------------------------------------------------------------------------

\* A stop line is followed by at most MaxGap lines of one kind before the
\* lines of its address.
MaxGap == 12

\* What precedes the stop line on its page.
AddrPres == { <<>>, <<LnStreet>>, <<LnStreetPost>> }

\* The lines the gap is filled with: header/footer noise that closes no page.
AddrFillers == { LnTurStart, LnFooterLower }

\* What follows the gap.
AddrTails ==
    { <<>>, <<LnStreet>>, <<LnStreet, LnPost>>, <<LnPost>>, <<LnStreetPost>>,
      <<LnPost, LnStreetPost>>, <<LnStreet, LnPost, LnDepotPost>>,
      <<LnFooter, LnStreet, LnPost>>, <<LnStopRema, LnStreet>> }

\* k lines ln
Fill(ln, k) == AsTuple([n \in 1..k |-> ln])

AddrDocs ==
    {pre \o <<LnStopNetto>> \o Fill(ln, k) \o tail :
        pre \in AddrPres, ln \in AddrFillers, k \in 0..MaxGap, tail \in AddrTails}

InitAddr ==
    /\ pc = "split"
    /\ lines \in AddrDocs
    /\ pages = <<>>
    /\ pidx = 0
    /\ all_rows = <<>>
    /\ row_count = -1
    /\ NoDec /\ NoAddr /\ NoBatch

\* Lines 325 and 270-279: the loop of process_rtf_file enters parse_page for a page.
EnterPage ==
    /\ pc = "pages"
    /\ pidx <= Len(pages)
    /\ sidx' = 0
    /\ pc' = "lines"
    /\ UNCHANGED <<adr, docVars, decVars, batchVars>>

\* Lines 281-313, one line of the page: on a stop line the address is looked
\* up (line 288) and the row appended unless it is the depot.
ParseLineStep ==
    /\ pc = "lines"
    /\ sidx < Len(pages[pidx])
    /\ adr' = IF FactsOf(pages[pidx][sidx + 1]).sm.found
              THEN find_street_and_post(pages[pidx], sidx, LookaheadDepth)
              ELSE adr
    /\ all_rows' = ParseLine(pages[pidx], sidx, find_meta(pages[pidx]), all_rows)
    /\ sidx' = sidx + 1
    /\ UNCHANGED <<pc, lines, pages, pidx, row_count, decVars, batchVars>>

\* Lines 314 and 326: parse_page returns its rows, the loop goes on to the next page.
LeavePage ==
    /\ pc = "lines"
    /\ sidx >= Len(pages[pidx])
    /\ pidx' = pidx + 1
    /\ pc' = "pages"
    /\ UNCHANGED <<lines, pages, all_rows, row_count, addrVars, decVars, batchVars>>

NextAddr == SplitPages \/ EnterPage \/ ParseLineStep \/ LeavePage \/ Return

SpecAddr == InitAddr /\ [][NextAddr]_vars

\* ------------------------------------------------------------------------
\* main: the loop over the uploaded files, lines 523-548
\* ------------------------------------------------------------------------

\* Lines 322-326 on the decoded lines: all_rows
AllRows(ps) == Flatten(AsTuple([p \in 1..Len(ps) |-> parse_page(ps[p])]))

\* Lines 328-329: the table and its row count
Table(rows) == [exc |-> "", df |-> rows, row_count |-> Len(rows)]

\* process_rtf_file(file_content, filename), lines 317-329, from the outcome d
\* of its lines 319-321: the table and the row count returned, or the
\* exception that leaves it.
process_rtf_file(d) ==
    IF d.exc # "" THEN [exc |-> d.exc, df |-> <<>>, row_count |-> 0]
    ELSE Table(AllRows(split_pages(d.lines)))

\* Path(name).stem, line 534, for a name without directories: the name
\* without its last suffix.
StemAt(name, dots) == IF dots = {} THEN name ELSE SubSeq(name, 1, MaxOf(dots) - 1)
Stem(name) == StemAt(name, {j \in 2..(Len(name) - 1) : name[j] = Ord(".")})

\* Line 534: output_name
OutputName(name) == Stem(name) \o Str(<<"_", "f", "a", "r", "v", "e", "s", "t", "r", "u", "k", "t", "u", "r", ".", "x", "l", "s", "x">>)

\* "\par ", between the lines of a file
ParSp == Str(<<"\\", "p", "a", "r", " ">>)

RECURSIVE RtfOf(_)
\* The bytes of a file with the lines ls.
RtfOf(ls) ==
    IF ls = <<>> THEN <<>>
    ELSE IF Len(ls) = 1 THEN ls[1]
    ELSE ls[1] \o ParSp \o RtfOf(Tail(ls))

\* The uploaded files: one page with a route and a stop, a file whose
\* decoding raises, two pages with a stop each, an empty file.
FileA == [name |-> Str(<<"a", ".", "r", "t", "f">>), content |-> RtfOf(<<LnRoute101, LnStopNetto, LnStreet, LnPost>>)]
FileB == [name |-> Str(<<"b", ".", "r", "t", "f">>), content |-> LnStreet \o EscUBig]
FileC == [name |-> Str(<<"c", ".", "1", ".", "r", "t", "f">>), content |-> RtfOf(<<LnStopRema, LnFooter, LnStopNetto>>)]
FileD == [name |-> Str(<<"d">>), content |-> <<>>]
BatchFiles == <<FileA, FileB, FileC, FileD>>

\* Lines 319-321 of process_rtf_file for each of BatchFiles, computed once.
BatchDecoded == AsTuple([n \in 1..Len(BatchFiles) |-> decode_lines(BatchFiles[n].content)])

\* process_rtf_file of each of BatchFiles, computed once.
BatchOutcomes == AsTuple([n \in 1..Len(BatchFiles) |-> process_rtf_file(BatchDecoded[n])])

\* process_rtf_file(content, uploaded_file.name) for one of BatchFiles, looked up.
OutcomeOf(f) == BatchOutcomes[CHOOSE n \in 1..Len(BatchFiles) : BatchFiles[n] = f]

\* At most MaxFiles files are uploaded.
MaxFiles == 3

InitBatch ==
    /\ pc = "batch"
    /\ files \in SeqsUpTo({BatchFiles[n] : n \in 1..Len(BatchFiles)}, MaxFiles)
    /\ fidx = 1
    /\ all_results = <<>>
    /\ total_rows = 0
    /\ errors = <<>>
    /\ NoDec /\ NoDoc /\ NoAddr

\* Lines 530-543, one file for which the body of the try completes (for the
\* tables of these files create_excel, line 533, raises nothing; the bytes it
\* returns are left out).
ProcessFile ==
    /\ pc = "batch"
    /\ fidx <= Len(files)
    /\ OutcomeOf(files[fidx]).exc = ""
    /\ all_results' = Append(all_results,
                             [filename    |-> files[fidx].name,
                              output_name |-> OutputName(files[fidx].name),
                              df          |-> OutcomeOf(files[fidx]).df,
                              row_count   |-> OutcomeOf(files[fidx]).row_count])
    /\ total_rows' = total_rows + OutcomeOf(files[fidx]).row_count
    /\ fidx' = fidx + 1
    /\ UNCHANGED <<pc, files, errors, decVars, docVars, addrVars>>

\* ReportError counting the file as processed all the same.
ReportErrorAndRecord ==
    /\ pc = "batch"
    /\ fidx <= Len(files)
    /\ OutcomeOf(files[fidx]).exc # ""
    /\ errors' = Append(errors, files[fidx].name)
    /\ all_results' = Append(all_results,
                             [filename    |-> files[fidx].name,
                              output_name |-> OutputName(files[fidx].name),
                              df          |-> OutcomeOf(files[fidx]).df,
                              row_count   |-> OutcomeOf(files[fidx]).row_count])
    /\ fidx' = fidx + 1
    /\ UNCHANGED <<pc, files, total_rows, decVars, docVars, addrVars>>

\* Lines 530-531 and 545-546, one file for which process_rtf_file raises:
\* st.error names the file and the loop goes on.
ReportError ==
    /\ pc = "batch"
    /\ fidx <= Len(files)
    /\ OutcomeOf(files[fidx]).exc # ""
    /\ errors' = Append(errors, files[fidx].name)
    /\ fidx' = fidx + 1
    /\ UNCHANGED <<pc, files, all_results, total_rows, decVars, docVars, addrVars>>

\* Line 548: the loop is over.
Finish ==
    /\ pc = "batch"
    /\ fidx > Len(files)
    /\ pc' = "done"
    /\ UNCHANGED <<batchVars, decVars, docVars, addrVars>>

NextBatch == ProcessFile \/ ReportError \/ Finish

SpecBatch == InitBatch /\ [][NextBatch]_vars

\* ------------------------------------------------------------------------
\* Properties of process_rtf_file on decoded lines
\* ------------------------------------------------------------------------

\* The text x in lower case.
LowerAll(x) == AsTuple([n \in 1..Len(x) |-> Lower(x[n])])

\* sub in x, in any letter case; never for None.
ContainsAnyCase(x, sub) == x # None /\ Contains(LowerAll(x), LowerAll(sub))

\* The lines of AllLines the footer pattern of split_pages matches in any letter case.
FootersAnyCase ==
    {AllLines[n] : n \in {m \in 1..Len(AllLines) : ReSearch(SidePat, AllLines[m], TRUE).found}}

\* C1: in the rows process_rtf_file returns, the rows of one route number are
\* contiguous: no row of another route number, or of none, lies between two
\* rows of the same route number.
C1_RoutesContiguous ==
    pc = "done" =>
        \A i, j, k \in 1..Len(all_rows) :
            (i < j /\ j < k /\ all_rows[i].Rutenummer = all_rows[k].Rutenummer)
                => all_rows[j].Rutenummer = all_rows[i].Rutenummer

\* The first and the last line of the page line g of ls lies in: the page
\* begins after the last footer before g and ends with the first footer from g on.
PageFirst(ls, g) == 1 + MaxOf({0} \cup {f \in 1..(g - 1) : IsFooter(ls[f])})
PageLast(ls, g) == MinOf({Len(ls)} \cup {f \in g..Len(ls) : IsFooter(ls[f])})
PageAround(ls, g) == SubSeq(ls, PageFirst(ls, g), PageLast(ls, g))

\* The row of line g of ls, in a sequence: empty when the line is no stop line
\* or the depot rule excludes it.
RowOfLine(ls, g) ==
    ParseLine(PageAround(ls, g), g - PageFirst(ls, g), find_meta(PageAround(ls, g)), <<>>)

\* The rows of the stop lines of ls, in the order of the lines.
RowsInLineOrder(ls) == Flatten(AsTuple([g \in 1..Len(ls) |-> RowOfLine(ls, g)]))

\* C2: the rows process_rtf_file returns are the rows of the stop lines of the
\* decoded text that the depot rule does not exclude, one for one and in the
\* order of the lines, a stop without an address included; the count returned
\* is their number.
C2_RowsInSourceOrder ==
    pc = "done" => all_rows = RowsInLineOrder(lines) /\ row_count = Len(all_rows)

\* C2 witness: a document of two pages returned two rows or more, one of them
\* of a stop without an address, and a stop line was excluded.
C2_Witness ==
    /\ pc = "done"
    /\ Len(pages) >= 2
    /\ Len(all_rows) >= 2
    /\ \E k \in 1..Len(all_rows) : all_rows[k].Adresse = None /\ all_rows[k].Postnr = None
    /\ all_rows[1] # all_rows[2]

\* C3: no row returned is of a stop whose name, street or city contains the
\* depot marker in whatever letter case.
C3_NoDepotRowAnyCase ==
    pc = "done" =>
        \A k \in 1..Len(all_rows) :
            /\ ~ContainsAnyCase(all_rows[k].Butiksnavn, Hasselager)
            /\ ~ContainsAnyCase(all_rows[k].Adresse, Hasselager)
            /\ ~ContainsAnyCase(all_rows[k].By, Hasselager)

\* C6: split_pages closes a page at every line the footer pattern matches in
\* whatever letter case and nowhere else: the pages are non-empty, every page
\* but the last ends with a footer, no page holds a footer before its last
\* line, and the pages joined are the lines.
C6_PagesCloseAtFootersAnyCase ==
    pc # "split" =>
        /\ Flatten(pages) = lines
        /\ \A p \in 1..Len(pages) :
              /\ pages[p] # <<>>
              /\ p < Len(pages) => pages[p][Len(pages[p])] \in FootersAnyCase
              /\ \A n \in 1..(Len(pages[p]) - 1) : pages[p][n] \notin FootersAnyCase

\* The capture of the last of the lines with facts fs that the pattern of
\* field matches, None when none does.
LastCaptureAt(fs, field, hits) == IF hits = {} THEN None ELSE fs[MaxOf(hits)][field].g1
LastCapture(fs, field) == LastCaptureAt(fs, field, {n \in 1..Len(fs) : fs[n][field].found})

\* A row carries the last captures of the page with facts fs; the settlement
\* minutes are carried as hours.
CarriesLast(row, fs) ==
    /\ row.Rutenummer = LastCapture(fs, "host")
    /\ row.Portnummer = LastCapture(fs, "port")
    /\ row.Starttid = LastCapture(fs, "start")
    /\ row.Sluttid = LastCapture(fs, "slut")
    /\ row.Afregningstid = AfrHours(LastCapture(fs, "afr"))

\* C7: every row a page adds carries, for each of the five fields, the capture
\* of the last line of that page that matches the field's pattern (the
\* settlement minutes converted to hours, lines 295-300), and no value when
\* no line of the page matches, whatever the pages before held.
C7_MetaIsLastMatchOfPage ==
    [][(pc = "pages" /\ pidx <= Len(pages) /\ pidx' = pidx + 1) =>
          \A k \in (Len(all_rows) + 1)..Len(all_rows') :
              CarriesLast(all_rows'[k], FactsAll(pages[pidx]))]_vars

\* C7 witness: the first page held two route lines with different numbers
\* and its row carries the second; the second page held none and its row
\* carries no route number.
C7_Witness ==
    /\ pc = "done"
    /\ Len(pages) = 2
    /\ Len(all_rows) = 2
    /\ pages[1][1] = LnHeadB /\ pages[1][2] = LnRoute101
    /\ all_rows[1].Rutenummer = Str(<<"1", "0", "1">>)
    /\ all_rows[1].Portnummer = Str(<<"1", "2">>)
    /\ all_rows[2].Rutenummer = None

\* ------------------------------------------------------------------------
\* Properties of find_street_and_post
\* ------------------------------------------------------------------------

\* The positions (1-based) of the lines of the page at i+1 .. i+12, for the
\* line i (0-based).
WindowOf(page, i) == {j \in 1..Len(page) : j - 1 > i /\ j - 1 <= i + 12}

\* Of the positions w of a page with facts fs: the lines that are not empty,
\* no header/footer noise and hold no bare 4-digit token; the lines with a
\* 4-digit token and text after it; the lines, no noise, with text, a
\* 4-digit token and text after it.
StreetLines(page, fs, w) == {j \in w : page[j] # <<>> /\ ~fs[j].noise /\ ~fs[j].bare4}
PostLines(fs, w) == {j \in w : fs[j].pm.found}
StreetPostLines(fs, w) == {j \in w : fs[j].pm2.found /\ ~fs[j].noise}

\* The street is the first of the lines sl, trimmed; without such a line the
\* first pass gives none, and a street can only come from the first of the
\* lines fl of the fallback.
StreetRule(page, fs, sl, fl, a) ==
    IF sl # {} THEN a.street = strip(page[MinOf(sl)])
    ELSE IF fl = {} THEN a.street = None
    ELSE a.street = strip(fs[MinOf(fl)].pm2.g1)

\* A step of parse_page over a stop line.
StopStep ==
    /\ pc = "lines"
    /\ sidx < Len(pages[pidx])
    /\ sidx' = sidx + 1
    /\ FactsOf(pages[pidx][sidx + 1]).sm.found

\* C8: for a stop line at index i of a page the first pass takes as street
\* the first line among positions i+1 .. i+12 of that page that is not empty,
\* not header/footer noise and holds no bare 4-digit token, trimmed; no line
\* outside these positions is used, and without such a line the first pass
\* gives no street.
C8_StreetFromWindow ==
    [][StopStep =>
          StreetRule(pages[pidx], FactsAll(pages[pidx]),
                     StreetLines(pages[pidx], FactsAll(pages[pidx]), WindowOf(pages[pidx], sidx)),
                     StreetPostLines(FactsAll(pages[pidx]), WindowOf(pages[pidx], sidx)),
                     adr')]_vars

\* C8 witness: the stop line at index 0 was followed by twelve lines of noise
\* and then by a street at index 13, and no street was returned.
C8_Witness ==
    /\ pc = "lines"
    /\ sidx = 1
    /\ Len(pages[pidx]) = 14
    /\ pages[pidx][1] = LnStopNetto
    /\ pages[pidx][14] = LnStreet
    /\ adr.street = None

\* The postal code and the city are those of the first of the lines pl.
PostRule(fs, pl, a) ==
    IF pl = {} THEN a.postnr = None /\ a.by = None
    ELSE a.postnr = fs[MinOf(pl)].pm.g1 /\ a.by = strip(fs[MinOf(pl)].pm.g2)

\* C9 as stated: the postal code and the city returned are those of the
\* first line of the window with a 4-digit token and text after it,
\* whichever line was taken as the street.
C9_PostFromFirstMatch ==
    [][StopStep =>
          PostRule(FactsAll(pages[pidx]),
                   PostLines(FactsAll(pages[pidx]), WindowOf(pages[pidx], sidx)), adr')]_vars

\* PostRule, unless the first pass found no street and the fallback found a
\* line: then they are the postal code and the city of that line.
PostRuleAmended(fs, sl, pl, fl, a) ==
    IF sl # {} \/ fl = {} THEN PostRule(fs, pl, a)
    ELSE a.postnr = fs[MinOf(fl)].pm2.g2 /\ a.by = strip(fs[MinOf(fl)].pm2.g3)

\* C9 amended: the postal code and the city returned are those of the first
\* line of the window with a 4-digit token and text after it when the first
\* pass found a street or the fallback finds no line; otherwise they are
\* those of the line the fallback splits.
C9_PostFromFirstMatchOrFallback ==
    [][StopStep =>
          PostRuleAmended(FactsAll(pages[pidx]),
                          StreetLines(pages[pidx], FactsAll(pages[pidx]), WindowOf(pages[pidx], sidx)),
                          PostLines(FactsAll(pages[pidx]), WindowOf(pages[pidx], sidx)),
                          StreetPostLines(FactsAll(pages[pidx]), WindowOf(pages[pidx], sidx)),
                          adr')]_vars

\* C9 witness: the window held no street line, a line with a postal code
\* and then a line with a street and a postal code: the first pass found no
\* street and the postal code and the city of the second line were returned.
C9_Witness ==
    /\ pc = "lines"
    /\ sidx = 1
    /\ Len(pages[pidx]) >= 3
    /\ pages[pidx][1] = LnStopNetto
    /\ SubSeq(pages[pidx], Len(pages[pidx]) - 1, Len(pages[pidx])) = <<LnPost, LnStreetPost>>
    /\ adr = [street |-> Str(<<"N", "y", "g", "a", "d", "e", " ", "1">>),
              postnr |-> Str(<<"8", "2", "0", "0">>),
              by |-> Str(<<"A", "a", "r", "h", "u", "s", " ", "N">>)]

\* ------------------------------------------------------------------------
\* Properties of the decoding
\* ------------------------------------------------------------------------

\* C4: decoding never raises and gives lines that are not empty and have no
\* white space at either end, whatever the number of a \uN escape.
C4_DecodeNeverRaises ==
    pc # "decode" =>
        /\ dec.exc = ""
        /\ \A n \in 1..Len(dec.lines) :
              /\ dec.lines[n] # <<>>
              /\ dec.lines[n][1] \notin SpaceSet
              /\ dec.lines[n][Len(dec.lines[n])] \notin SpaceSet

\* The escapes that stand for one character, each with that character.
LiteralOf ==
    { <<EscU92, 92>>, <<EscU123, 123>>, <<EscHex5c, 92>>, <<EscHex7b, 123>>, <<EscU65, 65>> }

\* C10: the character a \uN or a \'XX escape stands for is kept as literal
\* text: after text pre and before text post it gives the one line pre, the
\* character, post, and no later step takes it for the start of a hex
\* escape, of a control word or for a brace.
C10_EscapedCharIsLiteral ==
    pc # "decode" =>
        \A pre \in DecPres, e \in LiteralOf, post \in DecPosts :
            raw = pre \o e[1] \o post
                => dec = [exc |-> "", lines |-> << pre \o <<e[2]>> \o post >>]

\* ------------------------------------------------------------------------
\* Properties of the loop over the uploaded files
\* ------------------------------------------------------------------------

\* The entry of all_results for the file f processed alone.
ResultAlone(f) ==
    [filename    |-> f.name,
     output_name |-> OutputName(f.name),
     df          |-> OutcomeOf(f).df,
     row_count   |-> OutcomeOf(f).row_count]

\* The files of fs for which process_rtf_file raises, and the others, in order.
Failing(fs) == SelectSeq(fs, LAMBDA f : OutcomeOf(f).exc # "")
Others(fs) == SelectSeq(fs, LAMBDA f : OutcomeOf(f).exc = "")

RECURSIVE SumCounts(_)
\* The row counts of the files fs, added up.
SumCounts(fs) == IF fs = <<>> THEN 0 ELSE OutcomeOf(fs[1]).row_count + SumCounts(Tail(fs))

\* C5: when the loop over the uploaded files is over, every file for which
\* process_rtf_file raised was reported, once and in order, the loop went on
\* to the files after it, all_results holds for every other file, in order,
\* the entry the file gives when processed alone, and nothing for a failing
\* file, and total_rows is the sum of the row counts of the other files.
C5_FailureIsPerDocument ==
    pc = "done" =>
        /\ fidx = Len(files) + 1
        /\ errors = AsTuple([n \in 1..Len(Failing(files)) |-> Failing(files)[n].name])
        /\ all_results = AsTuple([n \in 1..Len(Others(files)) |-> ResultAlone(Others(files)[n])])
        /\ total_rows = SumCounts(Others(files))

\* C5 witness: of three files the second failed; the first and the third
\* gave rows and the loop ended with their two entries.
C5_Witness ==
    /\ pc = "done"
    /\ Len(files) = 3
    /\ OutcomeOf(files[1]).exc = "" /\ OutcomeOf(files[2]).exc # "" /\ OutcomeOf(files[3]).exc = ""
    /\ Len(errors) = 1
    /\ Len(all_results) = 2
    /\ all_results[1].row_count > 0 /\ all_results[2].row_count > 0
    /\ all_results[1] # all_results[2]

\* ------------------------------------------------------------------------
\* Properties of the store name
\* ------------------------------------------------------------------------

\* A route suffix as the specification words it: whitespace, one letter,
\* optional digits, at the end.
AnyLetterSuffixPat == Cat(<< Splus, OneOf(AlphaSet), RepInf(Digit, 0), Eol >>)

\* The raw name without such a suffix, trimmed.
WithoutLetterSuffix(name_raw) == strip(ReSub(AnyLetterSuffixPat, <<>>, name_raw))

\* C11: the store name of the row of every stop line is the raw name the stop
\* pattern matched, trimmed, with a suffix of whitespace, one letter (any
\* letter) and optional digits at its end removed, and the raw name itself
\* when it has no such suffix.
C11_AnyLetterSuffixStripped ==
    pc = "done" =>
        /\ Len(all_rows) = Len(lines)
        /\ \A k \in 1..Len(all_rows) :
              all_rows[k].Butiksnavn = WithoutLetterSuffix(strip(FactsOf(lines[k]).sm.name))

====
